---- MODULE Spec2Model ----
(***************************************************************************)
(* Model of the string-keyed vector cache of decanlp/text/vocab.py:        *)
(* string_hash, HashTable (open addressing, step 7, load factor 0.5) and   *)
(* Vectors.cache (parse the raw text, build the index, persist / reload    *)
(* the three cache files) and Vectors.__getitem__.                         *)
(*                                                                         *)
(* A string is a sequence of code points (<<97>> is "a").  Keys are words  *)
(* split from text lines; their code points are non-zero.                  *)
(*                                                                         *)
(* A 32-bit hash value is the pair <<hi, lo>> of its 16-bit halves, value  *)
(* hi * 65536 + lo, because the model checker's integers are 32-bit        *)
(* signed.  After the promotion to int64 that `hash += 7` performs on a    *)
(* numpy uint32 the high half may exceed 65535: nothing is masked there.   *)
(***************************************************************************)
EXTENDS Integers, Sequences, FiniteSets, TLC

\* ------------------------------------------------------------------ bounds
\* longest key list
MaxKeys == 7
\* longest key list drawn with any order and any repetition
MaxShort == 3
\* constructions of a table from one key list
MaxRuns == 2
\* lines of the raw text file
MaxLines == 3
\* process starts against one cache directory
MaxStarts == 2
\* largest frequency of a token in a counter
MaxCount == 2

\* ------------------------------------------------------- program constants
MAX_WORD_LENGTH == 100
EMPTY_BUCKET == 0
P == 1009
STEP == 7
Base == 65536

\* Python's None where an ordinal is expected
None == -1

\* --------------------------------------------------------------- key pools
ka == <<97>>
kh == <<104>>
ko == <<111>>
kb == <<98>>
kc == <<99>>
kd == <<100>>
kab == <<97, 98>>
kcat == <<99, 97, 116>>
kv == <<118>>
\* a key whose hash is 2^32 - 3
kwrap == <<555, 63, 611>>

PoolSeq == <<ka, kh, ko, kb, kc, kd, kab, kcat>>
Pool == {PoolSeq[j] : j \in 1..Len(PoolSeq)}
\* keys of the key lists drawn with any order and any repetition
ShortPool == {ka, kh, kb, kab, kwrap}
\* keys looked up: one that key lists hold and one that no key list holds
LookupKeys == {ka, kv}
\* the `default` arguments of get
Defaults == {None, -2}

VARIABLES
  pc,            \* control position
  caller,        \* who constructs the HashTable: "HashTable" (a direct call) or "Vectors"
  words,         \* the list `itos`: argument of HashTable.__init__, local of Vectors.cache
  itos,          \* self.itos  (the key table, 0-based: entry j is itos[j+1])
  table,         \* self.table (bucket -> 0 or 1 + key index), over 0..table_size-1
  table_size,    \* self.table_size
  i,             \* loop index of _build
  hash,          \* local `hash` of _build
  bucket,        \* local `bucket` of _build
  nprobe,        \* iterations of the while loop of _build for the current word
  run,           \* how many times the table has been constructed from `words`
  prev,          \* the arrays of the previous construction, as they were in memory
  last,          \* the last lookup and what it returned
  raw,           \* the raw text file: its lines, or NoRaw when there is none
  files,         \* the cache directory: which of the three files exist, and their arrays
  binary_lines,  \* local `binary_lines` of Vectors.cache
  ln,            \* lines consumed by the parse loop
  dim,           \* local `dim`, then self.dim
  vectors,       \* local `vectors`, then self.vectors (a sequence of rows)
  row,           \* local `i` of Vectors.cache, the next free row
  starts,        \* process starts so far
  path,          \* the branch of Vectors.cache this process took
  log,           \* level of the record the last iteration of the parse loop logged, or ""
  other,         \* a second process on the same cache directory, while it does not run
  vocab          \* a Vocab object and the arguments of its constructor

tableVars == <<words, itos, table, table_size, i, hash, bucket, nprobe>>
cacheVars == <<raw, files, binary_lines, ln, dim, vectors, row, starts, path, log>>
vars == <<pc, caller, tableVars, run, prev, last, cacheVars, other, vocab>>

\* ------------------------------------------------------- 32-bit arithmetic
Norm(h) == <<h[1] + (h[2] \div Base), h[2] % Base>>
FromInt(n) == <<n \div Base, n % Base>>
Add(h, g) == Norm(<<h[1] + g[1], h[2] + g[2]>>)
Shl10(h) == Norm(<<h[1] * 1024, h[2] * 1024>>)
Mask32(h) == <<h[1] % Base, h[2]>>
\* h % m for a small positive m
Mod(h, m) == (((h[1] % m) * (Base % m)) + (h[2] % m)) % m

\* the iteration without `h = h & 0xFFFFFFFF`
HashStepUnmasked(h, c) == Add(Add(Shl10(h), h), FromInt(c * P))

\* one iteration of the loop of string_hash
HashStep(h, c) == Mask32(Add(Add(Shl10(h), h), FromInt(c * P)))

\* the loop of string_hash over the characters x[lo..hi], in order, from the
\* accumulator h.  The range is walked in two halves, the first before the
\* second, which keeps the evaluation shallow for keys of MAX_WORD_LENGTH
\* characters; the test on the masked accumulator holds of every value and
\* makes the accumulator be evaluated before the second half starts.
RECURSIVE HashFrom(_, _, _, _)
HashFrom(h, x, lo, hi) ==
  IF lo > hi THEN h
  ELSE IF lo = hi THEN HashStep(h, x[lo])
  ELSE LET mid == (lo + hi) \div 2
           masked == HashFrom(h, x, lo, mid)
       IN  IF masked[1] < Base THEN HashFrom(masked, x, mid + 1, hi) ELSE masked

\* a hash seeded anew by each construction, as str.__hash__ is by each process
string_hash_seeded(x) == HashFrom(FromInt(run), x, 1, Len(x))

\* a hash seeded by each process, as str.__hash__ is
string_hash_per_process(x) == HashFrom(FromInt(starts), x, 1, Len(x))

string_hash(x) == HashFrom(<<0, 0>>, x, 1, Len(x))

\* ---------------------------------------------------------------- HashTable
RECURSIVE MaxLen(_)
MaxLen(ws) ==
  IF Len(ws) = 1 THEN Len(ws[1])
  ELSE LET m == MaxLen(Tail(ws)) IN IF Len(ws[1]) > m THEN Len(ws[1]) ELSE m

\* a string stored in an array of dtype 'U<w>'
FixedWidth(x, w) == IF Len(x) > w THEN SubSeq(x, 1, w) ELSE x

\* np.array(itos, dtype='U' + str(max_str_len))
np_array_U(ws, w) == [j \in 1..Len(ws) |-> FixedWidth(ws[j], w)]

np_zeros(n) == [b \in 0..(n - 1) |-> 0]

\* the capacity taken to be half the length of the bucket array
shape0_halved(t) == Cardinality(DOMAIN t) \div 2

\* table.shape[0] of a bucket array
shape0(t) == Cardinality(DOMAIN t)

\* a table with one bucket per key
CapacityNoSlack(n) == n

\* self.table_size for n keys
Capacity(n) == n * 2

\* the ordinal stored without the offset
StoredNoOffset(n) == n

\* the value stored in the bucket of key i
Stored(n) == 1 + n

\* the build advancing by 1 where the lookup advances by 7
NextHashByOne(h) == Add(h, FromInt(1))

\* the accumulator kept in 32 bits
NextHashWrapping(h) == Mask32(Add(h, FromInt(STEP)))

\* `hash += 7`
NextHash(h) == Add(h, FromInt(STEP))

\* the lookup advancing by 1 where the build advances by 7
ProbeByOne(h, probe_count, size) == Mod(Add(h, FromInt(probe_count)), size)

\* the bucket of attempt probe_count in _find
Probe(h, probe_count, size) == Mod(Add(h, FromInt(STEP * probe_count)), size)

\* HashTable.__init__(itos), the branch that builds
HashTableInit ==
  /\ pc = "new"
  /\ IF Len(words) = 0
       THEN \* max() of an empty sequence raises ValueError
            /\ pc' = "failed"
            /\ UNCHANGED <<itos, table, table_size, i>>
       ELSE /\ itos' = np_array_U(words, MaxLen(words))
            /\ table_size' = Capacity(Len(words))
            /\ table' = np_zeros(Capacity(Len(words)))
            /\ i' = 0
            /\ pc' = "for"
  /\ UNCHANGED <<caller, words, hash, bucket, nprobe, run, prev, last, cacheVars>>
  /\ UNCHANGED <<other, vocab>>

\* _build: the head of the for loop, hash and first bucket of word i
BuildHash ==
  /\ pc = "for"
  /\ i < Len(words)
  /\ hash' = string_hash(words[i + 1])
  /\ bucket' = Mod(string_hash(words[i + 1]), table_size)
  /\ nprobe' = 0
  /\ pc' = "while"
  /\ UNCHANGED <<caller, words, itos, table, table_size, i, run, prev, last, cacheVars>>
  /\ UNCHANGED <<other, vocab>>

\* _build: one iteration of the while loop
BuildProbe ==
  /\ pc = "while"
  /\ table[bucket] # EMPTY_BUCKET
  /\ nprobe < table_size
  /\ hash' = NextHash(hash)
  /\ bucket' = Mod(NextHash(hash), table_size)
  /\ nprobe' = nprobe + 1
  /\ UNCHANGED <<pc, caller, words, itos, table, table_size, i, run, prev, last, cacheVars>>
  /\ UNCHANGED <<other, vocab>>

\* _build: the while loop ends, the word is stored
BuildStore ==
  /\ pc = "while"
  /\ table[bucket] = EMPTY_BUCKET
  /\ itos' = [itos EXCEPT ![i + 1] = FixedWidth(words[i + 1], MaxLen(words))]
  /\ table' = [table EXCEPT ![bucket] = Stored(i)]
  /\ i' = i + 1
  /\ pc' = "for"
  /\ UNCHANGED <<caller, words, table_size, hash, bucket, nprobe, run, prev, last, cacheVars>>
  /\ UNCHANGED <<other, vocab>>

\* _build: the for loop is exhausted, __init__ returns
BuildEnd ==
  /\ pc = "for"
  /\ i = Len(words)
  /\ pc' = IF caller = "Vectors" THEN "built" ELSE "ready"
  /\ UNCHANGED <<caller, tableVars, run, prev, last, cacheVars>>
  /\ UNCHANGED <<other, vocab>>

\* ------------------------------------------------------------------ lookups
\* _find giving up only after twice table_size attempts
RECURSIVE FindFromLong(_, _, _, _, _, _)
FindFromLong(t, ks, size, h, key, probe_count) ==
  IF probe_count >= 2 * size
    THEN [result |-> None, exit |-> "exhausted", attempts |-> probe_count]
    ELSE LET key_index == t[Probe(h, probe_count, size)] IN
         IF key_index = EMPTY_BUCKET
           THEN [result |-> None, exit |-> "empty", attempts |-> probe_count + 1]
           ELSE IF ks[key_index] = key
             THEN [result |-> key_index - 1, exit |-> "hit", attempts |-> probe_count + 1]
             ELSE FindFromLong(t, ks, size, h, key, probe_count + 1)

\* _find trusting the first occupied bucket without comparing the key
FindFromNoCompare(t, ks, size, h, key, probe_count) ==
  IF probe_count >= size
    THEN [result |-> None, exit |-> "exhausted", attempts |-> probe_count]
    ELSE LET key_index == t[Probe(h, probe_count, size)] IN
         IF key_index = EMPTY_BUCKET
           THEN [result |-> None, exit |-> "empty", attempts |-> probe_count + 1]
           ELSE [result |-> key_index - 1, exit |-> "hit", attempts |-> probe_count + 1]

\* _find from attempt probe_count on: the result, how the loop ended and
\* the number of buckets inspected
RECURSIVE FindFrom(_, _, _, _, _, _)
FindFrom(t, ks, size, h, key, probe_count) ==
  IF probe_count >= size
    THEN [result |-> None, exit |-> "exhausted", attempts |-> probe_count]
    ELSE LET key_index == t[Probe(h, probe_count, size)] IN
         IF key_index = EMPTY_BUCKET
           THEN [result |-> None, exit |-> "empty", attempts |-> probe_count + 1]
           ELSE IF ks[key_index] = key
             THEN [result |-> key_index - 1, exit |-> "hit", attempts |-> probe_count + 1]
             ELSE FindFrom(t, ks, size, h, key, probe_count + 1)

_find(key) == FindFrom(table, itos, table_size, string_hash(key), key, 0)

\* what a lookup left behind: the default it was given, the value returned (ret for an ordinal or a
\* default, bool for a truth value), the exception raised, and for _find
\* how the loop ended and how many buckets it inspected
Outcome(op, key, default, ret, bool, raised, exit, attempts) ==
  [op |-> op, key |-> key, default |-> default, ret |-> ret, bool |-> bool,
   raised |-> raised, exit |-> exit, attempts |-> attempts]

NoLookup == Outcome("none", <<>>, None, None, FALSE, "", "", 0)

\* HashTable._find
Find(key) ==
  /\ pc = "ready"
  /\ LET r == _find(key) IN
       last' = Outcome("find", key, None, r.result, FALSE, "", r.exit, r.attempts)
  /\ UNCHANGED <<pc, caller, tableVars, run, prev, cacheVars>>
  /\ UNCHANGED <<other, vocab>>

\* HashTable.__getitem__
GetItem(key) ==
  /\ pc = "ready"
  /\ LET found == _find(key).result IN
       last' = IF found = None
                 THEN Outcome("getitem", key, None, None, FALSE, "KeyError", "", 0)
                 ELSE Outcome("getitem", key, None, found, FALSE, "", "", 0)
  /\ UNCHANGED <<pc, caller, tableVars, run, prev, cacheVars>>
  /\ UNCHANGED <<other, vocab>>

\* HashTable.__contains__
Contains(key) ==
  /\ pc = "ready"
  /\ LET found == _find(key).result IN
       last' = Outcome("contains", key, None, None, found # None, "", "", 0)
  /\ UNCHANGED <<pc, caller, tableVars, run, prev, cacheVars>>
  /\ UNCHANGED <<other, vocab>>

\* a get that stores the key it did not find, as dict.setdefault does
GetSetDefault(key, default) ==
  /\ pc = "ready"
  /\ LET found == _find(key).result IN
       /\ last' = Outcome("get", key, default, IF found = None THEN default ELSE found,
                          FALSE, "", "", 0)
       /\ itos' = IF found = None THEN Append(itos, key) ELSE itos
  /\ UNCHANGED <<pc, caller, words, table, table_size, i, hash, bucket, nprobe, run, prev,
                 cacheVars>>
  /\ UNCHANGED <<other, vocab>>

\* HashTable.get
Get(key, default) ==
  /\ pc = "ready"
  /\ LET found == _find(key).result IN
       last' = Outcome("get", key, default, IF found = None THEN default ELSE found,
                       FALSE, "", "", 0)
  /\ UNCHANGED <<pc, caller, tableVars, run, prev, cacheVars>>
  /\ UNCHANGED <<other, vocab>>

\* HashTable.__len__: `return self.itos`, the array of keys
HashTable__len__ == [type |-> "ndarray", value |-> itos]

\* len(table): the built-in takes the value of __len__ when it is an
\* integer and raises TypeError when it is not
Len_ ==
  /\ pc = "ready"
  /\ LET r == HashTable__len__ IN
       last' = IF r.type = "int"
                 THEN Outcome("len", <<>>, None, r.value, FALSE, "", "", 0)
                 ELSE Outcome("len", <<>>, None, None, FALSE, "TypeError", "", 0)
  /\ UNCHANGED <<pc, caller, tableVars, run, prev, cacheVars>>
  /\ UNCHANGED <<other, vocab>>

\* list(table): HashTable.__iter__ is iter(self.itos)
Iter ==
  /\ pc = "ready"
  /\ last' = Outcome("iter", <<>>, None, itos, FALSE, "", "", 0)
  /\ UNCHANGED <<pc, caller, tableVars, run, prev, cacheVars>>
  /\ UNCHANGED <<other, vocab>>

\* HashTable(itos) constructed once more over the same list
Reconstruct ==
  /\ pc = "ready"
  /\ caller = "HashTable"
  /\ run < MaxRuns
  /\ prev' = [itos |-> itos, table |-> table, table_size |-> table_size,
               vectors |-> vectors, dim |-> dim]
  /\ run' = run + 1
  /\ pc' = "new"
  /\ itos' = <<>>
  /\ table' = <<>>
  /\ table_size' = 0
  /\ i' = 0
  /\ hash' = <<0, 0>>
  /\ bucket' = 0
  /\ nprobe' = 0
  /\ last' = NoLookup
  /\ UNCHANGED <<caller, words, cacheVars>>
  /\ UNCHANGED <<other, vocab>>

\* ------------------------------------------------------------ Vectors.cache
\* A line of the raw file, already split on " ": its first field, the
\* remaining fields (numbers in decimal), and whether the bytes of the first
\* field are valid UTF-8.
Line(word, entries, utf8) == [word |-> word, entries |-> entries, utf8 |-> utf8]

word100 == [j \in 1..MAX_WORD_LENGTH |-> 98]
word101 == [j \in 1..(MAX_WORD_LENGTH + 1) |-> 97]

LinePool ==
  { Line(ka, <<1, 2>>, TRUE),          \* "a 1 2"
    Line(ka, <<5, 6>>, TRUE),          \* "a 5 6"
    Line(word100, <<3, 4>>, TRUE),     \* a key of 100 characters
    Line(word101, <<7, 8>>, TRUE),     \* a key of 101 characters
    Line(<<50>>, <<2>>, TRUE),         \* "2 2", one value field
    Line(kb, <<>>, TRUE),              \* "b", no value field
    Line(kc, <<1, 2, 3>>, TRUE),       \* "c 1 2 3"
    Line(<<255>>, <<9, 9>>, FALSE) }   \* a key that is not UTF-8

NoRaw == <<[word |-> <<>>, entries |-> <<>>, utf8 |-> FALSE, nofile |-> TRUE]>>

RawFiles == UNION {[1..n -> LinePool] : n \in 0..MaxLines} \cup {NoRaw}

FileNames == {"vectors", "itos", "table"}

\* by: the process start that wrote each file (0: none); done: the starts
\* whose build wrote all three
NoFiles ==
  [exists |-> {}, vectors |-> <<>>, itos |-> <<>>, table |-> <<>>,
   by |-> [f \in FileNames |-> 0], done |-> {}]

\* the matrix left unallocated
np_zeros2_deferred(n, d) == <<>>

\* np.zeros((n, d))
np_zeros2(n, d) == [r \in 1..n |-> [k \in 1..d |-> 0]]

\* a process starts and calls Vectors(name): nothing is in memory yet
Start ==
  /\ pc \in {"ready", "failed", "dead"}
  /\ caller = "Vectors"
  /\ starts < MaxStarts
  /\ starts' = starts + 1
  /\ pc' = "start"
  /\ path' = "none"
  /\ words' = <<>>
  /\ itos' = <<>>
  /\ table' = <<>>
  /\ table_size' = 0
  /\ i' = 0
  /\ hash' = <<0, 0>>
  /\ bucket' = 0
  /\ nprobe' = 0
  /\ last' = NoLookup
  /\ binary_lines' = FALSE
  /\ ln' = 0
  /\ dim' = None
  /\ vectors' = <<>>
  /\ row' = 0
  /\ log' = ""
  /\ prev' = IF pc = "ready" /\ path = "build"
               THEN [itos |-> itos, table |-> table, table_size |-> table_size,
                     vectors |-> vectors, dim |-> dim]
               ELSE prev
  /\ UNCHANGED <<caller, run, raw, files>>
  /\ UNCHANGED <<other, vocab>>

\* the test on the wrong path, which no file has
isfile_never == FALSE

\* os.path.isfile(path_vectors_np)
isfile_path_vectors_np == "vectors" \in files.exists

\* Vectors.cache up to the parse loop: the test on the .vectors file, the
\* test on the raw file, the read of its lines
CacheOpen ==
  /\ pc = "start"
  /\ IF ~isfile_path_vectors_np
       THEN /\ path' = "build"
            /\ IF raw = NoRaw
                 THEN \* RuntimeError('no vectors found at ...')
                      /\ pc' = "failed"
                      /\ UNCHANGED binary_lines
                 ELSE /\ pc' = "parse"
                      /\ binary_lines' = (\E n \in 1..Len(raw) : ~raw[n].utf8)
       ELSE /\ path' = "load"
            /\ pc' = "load"
            /\ UNCHANGED binary_lines
  /\ UNCHANGED <<caller, tableVars, run, prev, last, raw, files, ln, dim, vectors, row,
                 starts, log>>
  /\ UNCHANGED <<other, vocab>>

\* a one-value line skipped only while no dimension is known
likely_header_before_dim(entries) == Len(entries) = 1 /\ dim = None

\* no line taken for a header
likely_header_never(entries) == FALSE

\* `len(entries) == 1`: "likely a header"
likely_header(entries) == Len(entries) = 1

\* only a line with too many values counted as a mismatch
wrong_dimensions_longer(d, entries) == Len(entries) > d

\* `dim != len(entries)`
wrong_dimensions(d, entries) == d # Len(entries)

\* a key of MAX_WORD_LENGTH characters dropped too
too_long_inclusive(word) == Len(word) >= MAX_WORD_LENGTH

\* `len(word) > MAX_WORD_LENGTH`
too_long(word) == Len(word) > MAX_WORD_LENGTH

\* the row written at the index of the line
store_row_at_line(vs, r, entries) == [vs EXCEPT ![ln + 1] = entries]

\* `vectors[i] = [float(x) for x in entries]`
store_row(vs, r, entries) == [vs EXCEPT ![r + 1] = entries]

\* one iteration of the loop over the lines
ParseLine ==
  /\ pc = "parse"
  /\ ln < Len(raw)
  /\ LET line == raw[ln + 1]
         word == line.word
         entries == line.entries
         first == dim = None /\ Len(entries) > 1
         dim1 == IF first THEN Len(entries) ELSE dim
         vectors1 == IF first THEN np_zeros2(Len(raw), Len(entries)) ELSE vectors
     IN
     /\ ln' = ln + 1
     /\ IF ~first /\ likely_header(entries)
          THEN \* logger.warning("... likely a header"): continue
               /\ log' = "warning"
               /\ UNCHANGED <<pc, dim, vectors, row, words>>
          ELSE IF ~first /\ wrong_dimensions(dim, entries)
            THEN \* RuntimeError: "All vectors must have the same number of dimensions"
                 /\ pc' = "failed"
                 /\ log' = ""
                 /\ UNCHANGED <<dim, vectors, row, words>>
            ELSE /\ dim' = dim1
                 /\ IF binary_lines /\ ~line.utf8
                      THEN \* logger.info("Skipping non-UTF8 token"): continue
                           /\ vectors' = vectors1
                           /\ log' = "info"
                           /\ UNCHANGED <<pc, row, words>>
                      ELSE IF too_long(word)
                        THEN \* continue
                             /\ vectors' = vectors1
                             /\ log' = ""
                             /\ UNCHANGED <<pc, row, words>>
                        ELSE /\ vectors' = store_row(vectors1, row, entries)
                             /\ log' = ""
                             /\ row' = row + 1
                             /\ words' = Append(words, word)
                             /\ UNCHANGED pc
  /\ UNCHANGED <<caller, itos, table, table_size, i, hash, bucket, nprobe, run, prev,
                 last, raw, files, binary_lines, starts, path>>
  /\ UNCHANGED <<other, vocab>>

\* after the loop: the assertion, the truncation, the call of HashTable(itos)
ParseEnd ==
  /\ pc = "parse"
  /\ ln = Len(raw)
  /\ IF dim = None
       THEN \* vectors is None: vectors.shape raises AttributeError
            /\ pc' = "failed"
            /\ UNCHANGED vectors
       ELSE IF ~(Len(words) <= Len(vectors))
         THEN \* AssertionError
              /\ pc' = "failed"
              /\ UNCHANGED vectors
         ELSE /\ vectors' = SubSeq(vectors, 1, Len(words))
              /\ pc' = "new"
  /\ UNCHANGED <<caller, tableVars, run, prev, last, raw, files, binary_lines, ln, dim,
                 row, starts, path, log>>
  /\ UNCHANGED <<other, vocab>>

\* HashTable(itos) has returned: self.itos, the assertion on the shapes
TableBuilt ==
  /\ pc = "built"
  /\ pc' = IF Len(itos) = Len(vectors) THEN "save_vectors" ELSE "failed"
  /\ UNCHANGED <<caller, tableVars, run, prev, last, cacheVars>>
  /\ UNCHANGED <<other, vocab>>

\* np.save(path_vectors_np, vectors)
SaveVectors ==
  /\ pc = "save_vectors"
  /\ files' = [files EXCEPT !.exists = @ \cup {"vectors"},
                            !.vectors = [rows |-> vectors, cols |-> dim],
                            !.by["vectors"] = starts]
  /\ pc' = "save_itos"
  /\ UNCHANGED <<caller, tableVars, run, prev, last, raw, binary_lines, ln, dim, vectors,
                 row, starts, path, log>>
  /\ UNCHANGED <<other, vocab>>

\* np.save(path_itos_np, self.itos)
SaveItos ==
  /\ pc = "save_itos"
  /\ files' = [files EXCEPT !.exists = @ \cup {"itos"}, !.itos = itos,
                            !.by["itos"] = starts]
  /\ pc' = "save_table"
  /\ UNCHANGED <<caller, tableVars, run, prev, last, raw, binary_lines, ln, dim, vectors,
                 row, starts, path, log>>
  /\ UNCHANGED <<other, vocab>>

\* np.save(path_table_np, self.stoi.table), then self.vectors and self.dim
SaveTable ==
  /\ pc = "save_table"
  /\ files' = [files EXCEPT !.exists = @ \cup {"table"}, !.table = table,
                            !.by["table"] = starts, !.done = @ \cup {starts}]
  /\ pc' = "ready"
  /\ UNCHANGED <<caller, tableVars, run, prev, last, raw, binary_lines, ln, dim, vectors,
                 row, starts, path, log>>
  /\ UNCHANGED <<other, vocab>>

\* the process is killed while it persists the arrays
Crash ==
  /\ pc \in {"save_vectors", "save_itos", "save_table"}
  /\ pc' = "dead"
  /\ UNCHANGED <<caller, tableVars, run, prev, last, cacheVars>>
  /\ UNCHANGED <<other, vocab>>

\* the else branch of Vectors.cache: np.load of the three files,
\* HashTable(itos, table), self.vectors, self.dim
Load ==
  /\ pc = "load"
  /\ IF FileNames \subseteq files.exists
       THEN /\ vectors' = files.vectors.rows
            /\ itos' = files.itos
            /\ table' = files.table
            /\ table_size' = shape0(files.table)
            /\ dim' = files.vectors.cols
            /\ pc' = "ready"
       ELSE \* np.load of a file that does not exist raises
            /\ pc' = "failed"
            /\ UNCHANGED <<vectors, itos, table, table_size, dim>>
  /\ UNCHANGED <<caller, words, i, hash, bucket, nprobe, run, prev, last, raw, files,
                 binary_lines, ln, row, starts, path, log>>
  /\ UNCHANGED <<other, vocab>>

\* the content of memory that was never written
Uninitialized == -99

\* torch.Tensor(n, d): n rows of d values, not initialised
torch_Tensor(n, d) == [r \in 1..n |-> [k \in 1..d |-> Uninitialized]]

\* an unk_init that returns its argument as it is
zero_skipped(t) == t

\* torch.Tensor.zero_, the default unk_init
zero_(t) == [r \in DOMAIN t |-> [k \in DOMAIN t[r] |-> 0]]

\* the tokens looked up in a Vectors object
Tokens == {ka, word100, word101}

\* string_hash of each token, computed once: `hash = string_hash(key)`
token_hash == [t \in Tokens |-> string_hash(t)]

\* self.stoi._find(token) for a token of Tokens
token_find(token) == FindFrom(table, itos, table_size, token_hash[token], token, 0)

\* Vectors.__getitem__: `token in self.stoi`, then the row at
\* self.stoi[token] or unk_init of a fresh 1 x dim tensor.  bool tells
\* whether the token was in self.stoi.
VectorsGetItem(token) ==
  /\ pc = "ready"
  /\ caller = "Vectors"
  /\ LET found == token_find(token).result IN
       last' = IF found # None
                 THEN Outcome("lookup", token, None, vectors[found + 1], TRUE, "", "", 0)
                 ELSE Outcome("lookup", token, None, zero_(torch_Tensor(1, dim)), FALSE,
                              "", "", 0)
  /\ UNCHANGED <<pc, caller, tableVars, run, prev, cacheVars>>
  /\ UNCHANGED <<other, vocab>>

\* the memory of the running process, and its number
Context ==
  [pc |-> pc, words |-> words, itos |-> itos, table |-> table, table_size |-> table_size,
   i |-> i, hash |-> hash, bucket |-> bucket, nprobe |-> nprobe, last |-> last,
   binary_lines |-> binary_lines, ln |-> ln, dim |-> dim, vectors |-> vectors,
   row |-> row, path |-> path, log |-> log, starts |-> starts]

\* a process that has just called Vectors(name)
FreshProcess(id) ==
  [pc |-> "start", words |-> <<>>, itos |-> <<>>, table |-> <<>>, table_size |-> 0,
   i |-> 0, hash |-> <<0, 0>>, bucket |-> 0, nprobe |-> 0, last |-> NoLookup,
   binary_lines |-> FALSE, ln |-> 0, dim |-> None, vectors |-> <<>>,
   row |-> 0, path |-> "none", log |-> "", starts |-> id]

\* no second process
NoProcess == [FreshProcess(0) EXCEPT !.pc = "none"]

\* where a process tests, reads or writes a cache file next, or has ended
AtFileOperation(at) ==
  at \in {"start", "load", "save_vectors", "save_itos", "save_table", "ready", "failed"}

\* the scheduler lets the other process run.  The running process is
\* stopped before an operation on the cache files: what it does in between
\* touches its own memory only.
Switch ==
  /\ other.pc \notin {"none", "ready", "failed"}
  /\ AtFileOperation(pc)
  /\ other' = Context
  /\ pc' = other.pc
  /\ words' = other.words
  /\ itos' = other.itos
  /\ table' = other.table
  /\ table_size' = other.table_size
  /\ i' = other.i
  /\ hash' = other.hash
  /\ bucket' = other.bucket
  /\ nprobe' = other.nprobe
  /\ last' = other.last
  /\ binary_lines' = other.binary_lines
  /\ ln' = other.ln
  /\ dim' = other.dim
  /\ vectors' = other.vectors
  /\ row' = other.row
  /\ path' = other.path
  /\ log' = other.log
  /\ starts' = other.starts
  /\ UNCHANGED <<caller, run, prev, raw, files, vocab>>

\* -------------------------------------------------------------------- Vocab
\* no Vocab object
NoVocab == [pc |-> "none"]

\* x < y for two strings, as Python compares them: by code points
str_lt(x, y) ==
  \E k \in 1..(Len(x) + 1) :
     /\ k <= Len(y)
     /\ \A j \in 1..(k - 1) : x[j] = y[j]
     /\ (k = Len(x) + 1 \/ x[k] < y[k])

\* c.get(t, 0) of a Counter
Count(c, t) == IF t \in DOMAIN c THEN c[t] ELSE 0

\* counter.update(xs) for a list xs: one more for each element
RECURSIVE CounterUpdate(_, _)
CounterUpdate(c, xs) ==
  IF xs = <<>> THEN c
  ELSE LET t == Head(xs)
           c1 == [u \in DOMAIN c \cup {t} |-> IF u = t THEN Count(c, t) + 1 ELSE c[u]]
       IN  CounterUpdate(c1, Tail(xs))

\* counter.subtract(d) for a dict d
CounterSubtract(c, d) ==
  [u \in DOMAIN c \cup DOMAIN d |-> IF u \in DOMAIN d THEN Count(c, u) - d[u] ELSE c[u]]

\* {tok: i for i, tok in enumerate(specials)}: the last position wins
EnumerateDict(specials) ==
  [t \in {specials[j] : j \in 1..Len(specials)} |->
     (CHOOSE j \in 1..Len(specials) :
        specials[j] = t /\ \A k \in (j + 1)..Len(specials) : specials[k] # t) - 1]

\* sorted(counter.items(), key=lambda tup: tup[0])
RECURSIVE SortedByWord(_)
SortedByWord(S) ==
  IF S = {} THEN <<>>
  ELSE LET m == CHOOSE t \in S : \A u \in S \ {t} : str_lt(t[1], u[1])
       IN  <<m>> \o SortedByWord(S \ {m})

\* the place of x in a list sorted by frequency: before the first item
\* whose frequency is not larger than its own
RECURSIVE InsertByFrequency(_, _)
InsertByFrequency(x, s) ==
  IF s = <<>> THEN <<x>>
  ELSE IF Head(s)[2] <= x[2] THEN <<x>> \o s
  ELSE <<Head(s)>> \o InsertByFrequency(x, Tail(s))

\* words_and_frequencies.sort(key=lambda tup: tup[1], reverse=True): stable
RECURSIVE SortByFrequency(_)
SortByFrequency(s) ==
  IF s = <<>> THEN <<>> ELSE InsertByFrequency(Head(s), SortByFrequency(Tail(s)))

\* `max_size = None if max_size is None else max_size + len(self.itos)`
Limit(max_size, specials) == IF max_size = None THEN None ELSE max_size + Len(specials)

\* the loop over words_and_frequencies from item k on: [itos, stoi] at its end
RECURSIVE TakeWords(_, _, _, _, _, _)
TakeWords(wf, k, v_itos, v_stoi, min_freq, max_size) ==
  IF k > Len(wf) THEN [itos |-> v_itos, stoi |-> v_stoi]
  ELSE IF wf[k][2] < min_freq \/ (max_size # None /\ Len(v_itos) = max_size)
    THEN [itos |-> v_itos, stoi |-> v_stoi]
    ELSE TakeWords(wf, k + 1, Append(v_itos, wf[k][1]),
                   [u \in DOMAIN v_stoi \cup {wf[k][1]} |->
                      IF u = wf[k][1] THEN Len(v_itos) ELSE v_stoi[u]],
                   min_freq, max_size)

\* the arguments of Vocab(counter, max_size, min_freq, specials)
NewVocab(counter, max_size, min_freq, specials) ==
  [pc |-> "new", counter |-> counter, max_size |-> max_size, min_freq |-> min_freq,
   specials |-> specials, freqs |-> <<>>, itos |-> <<>>, stoi |-> <<>>,
   extended |-> {}, last |-> [op |-> "none", token |-> <<>>, ret |-> None, known |-> FALSE]]

\* Vocab.__init__
VocabInit ==
  /\ vocab.pc = "new"
  /\ LET min_freq == IF vocab.min_freq > 1 THEN vocab.min_freq ELSE 1
         updated == CounterUpdate(vocab.counter, vocab.specials)
         counter == CounterSubtract(updated, [t \in DOMAIN EnumerateDict(vocab.specials) |-> updated[t]])
         max_size == Limit(vocab.max_size, vocab.specials)
         words_and_frequencies ==
           SortByFrequency(SortedByWord({<<t, counter[t]>> : t \in DOMAIN counter}))
         taken == TakeWords(words_and_frequencies, 1, vocab.specials,
                            EnumerateDict(vocab.specials), min_freq, max_size)
     IN  vocab' = [vocab EXCEPT !.pc = "ready", !.freqs = vocab.counter,
                                !.itos = taken.itos, !.stoi = taken.stoi]
  /\ UNCHANGED <<pc, caller, tableVars, run, prev, last, cacheVars, other>>

\* the loop of extend over the words ws from word k on
RECURSIVE ExtendWords(_, _, _, _)
ExtendWords(ws, k, v_itos, v_stoi) ==
  IF k > Len(ws) THEN [itos |-> v_itos, stoi |-> v_stoi]
  ELSE IF ws[k] \notin DOMAIN v_stoi
    THEN ExtendWords(ws, k + 1, Append(v_itos, ws[k]),
                     [u \in DOMAIN v_stoi \cup {ws[k]} |->
                        IF u = ws[k] THEN Len(v_itos) ELSE v_stoi[u]])
    ELSE ExtendWords(ws, k + 1, v_itos, v_stoi)

\* sorted(v.itos)
RECURSIVE SortedWords(_)
SortedWords(ws) ==
  IF ws = <<>> THEN <<>>
  ELSE LET rest == SortedWords(Tail(ws))
           before == SelectSeq(rest, LAMBDA y : str_lt(y, Head(ws)))
           after == SelectSeq(rest, LAMBDA y : ~str_lt(y, Head(ws)))
       IN  before \o <<Head(ws)>> \o after

\* Vocab.extend(v, sort) for a v whose itos is v_itos
VocabExtend(v_itos, sort) ==
  /\ vocab.pc = "ready"
  /\ LET words_ == IF sort THEN SortedWords(v_itos) ELSE v_itos
         ext == ExtendWords(words_, 1, vocab.itos, vocab.stoi)
     IN  vocab' = [vocab EXCEPT !.itos = ext.itos, !.stoi = ext.stoi,
                                !.extended = @ \cup {v_itos[j] : j \in 1..Len(v_itos)},
                                !.last = [op |-> "extend", token |-> <<>>, ret |-> None,
                                          known |-> FALSE]]
  /\ UNCHANGED <<pc, caller, tableVars, run, prev, last, cacheVars, other>>

\* _default_unk_index
_default_unk_index == 0

\* defaultdict.__missing__: the default is stored under the key
stoi_missing(d, token) ==
  [u \in DOMAIN d \cup {token} |-> IF u = token THEN _default_unk_index ELSE d[u]]

\* vocab.stoi[token]; known tells whether the token was a key
VocabStoi(token) ==
  /\ vocab.pc = "ready"
  /\ LET known == token \in DOMAIN vocab.stoi
         stoi1 == IF known THEN vocab.stoi ELSE stoi_missing(vocab.stoi, token)
     IN  vocab' = [vocab EXCEPT !.stoi = stoi1,
                                !.last = [op |-> "stoi", token |-> token, ret |-> stoi1[token],
                                          known |-> known]]
  /\ UNCHANGED <<pc, caller, tableVars, run, prev, last, cacheVars, other>>

\* ------------------------------------------------------------ specification
\* the keys of PoolSeq at the positions S, in the order of PoolSeq
RECURSIVE Pick(_, _)
Pick(S, j) ==
  IF j > Len(PoolSeq) THEN <<>>
  ELSE IF j \in S THEN <<PoolSeq[j]>> \o Pick(S, j + 1) ELSE Pick(S, j + 1)

Reverse(s) == [k \in 1..Len(s) |-> s[Len(s) + 1 - k]]

\* key lists: every list of at most MaxShort keys, and every sub-list of
\* PoolSeq or of its reverse of at most MaxKeys keys
KeyLists ==
  LET Sub == {Pick(S, 1) : S \in {T \in SUBSET (1..Len(PoolSeq)) : Cardinality(T) <= MaxKeys}}
  IN  UNION {[1..n -> ShortPool] : n \in 0..MaxShort} \cup Sub \cup {Reverse(s) : s \in Sub}

InitMemory ==
  /\ itos = <<>>
  /\ table = <<>>
  /\ table_size = 0
  /\ i = 0
  /\ hash = <<0, 0>>
  /\ bucket = 0
  /\ nprobe = 0
  /\ run = 1
  /\ prev = [itos |-> <<>>, table |-> <<>>, table_size |-> 0, vectors |-> <<>>, dim |-> None]
  /\ last = NoLookup
  /\ binary_lines = FALSE
  /\ ln = 0
  /\ dim = None
  /\ vectors = <<>>
  /\ row = 0
  /\ files = NoFiles
  /\ path = "none"
  /\ log = ""

\* a caller constructs HashTable(words)
Init ==
  /\ pc = "new"
  /\ caller = "HashTable"
  /\ words \in KeyLists
  /\ raw = NoRaw
  /\ starts = 0
  /\ InitMemory
  /\ other = NoProcess
  /\ vocab = NoVocab

Lookups ==
  \/ \E key \in LookupKeys : Find(key)
  \/ \E key \in LookupKeys : GetItem(key)
  \/ \E key \in LookupKeys : Contains(key)
  \/ \E key \in LookupKeys, default \in Defaults : Get(key, default)
  \/ Len_
  \/ Iter

Next ==
  \/ HashTableInit
  \/ BuildHash
  \/ BuildProbe
  \/ BuildStore
  \/ BuildEnd
  \/ Lookups
  \/ Reconstruct

Spec == Init /\ [][Next]_vars

\* a first process calls Vectors(name) on an empty cache directory
InitCache ==
  /\ pc = "start"
  /\ caller = "Vectors"
  /\ words = <<>>
  /\ raw \in RawFiles
  /\ starts = 1
  /\ InitMemory
  /\ other = NoProcess
  /\ vocab = NoVocab

NextCache ==
  \/ Start
  \/ CacheOpen
  \/ ParseLine
  \/ ParseEnd
  \/ HashTableInit
  \/ BuildHash
  \/ BuildProbe
  \/ BuildStore
  \/ BuildEnd
  \/ TableBuilt
  \/ SaveVectors
  \/ SaveItos
  \/ SaveTable
  \/ Crash
  \/ Load
  \/ Lookups
  \/ \E token \in Tokens : VectorsGetItem(token)

SpecCache == InitCache /\ [][NextCache]_vars

\* the lines of the raw files two processes race on
RaceLines ==
  { Line(ka, <<1, 2>>, TRUE), Line(ka, <<5, 6>>, TRUE), Line(word100, <<3, 4>>, TRUE) }

RaceFiles == UNION {[1..n -> RaceLines] : n \in 0..MaxLines}

\* two processes call Vectors(name) on an empty cache directory
InitRace ==
  /\ pc = "start"
  /\ caller = "Vectors"
  /\ words = <<>>
  /\ raw \in RaceFiles
  /\ starts = 1
  /\ InitMemory
  /\ other = FreshProcess(2)
  /\ vocab = NoVocab

NextRace ==
  \/ CacheOpen
  \/ ParseLine
  \/ ParseEnd
  \/ HashTableInit
  \/ BuildHash
  \/ BuildProbe
  \/ BuildStore
  \/ BuildEnd
  \/ TableBuilt
  \/ SaveVectors
  \/ SaveItos
  \/ SaveTable
  \/ Load
  \/ Switch

SpecRace == InitRace /\ [][NextRace]_vars

\* the counted tokens, the lists of special tokens, the limits, the lists
\* a Vocab is extended by and the tokens looked up
klt == <<60>>
Counters == UNION {[D -> 1..MaxCount] : D \in SUBSET {ka, kab, kb}}
SpecialLists == {<<>>, <<klt>>, <<klt, ka>>, <<ka, klt>>, <<klt, klt>>}
MaxSizes == {None} \cup 0..MaxCount
MinFreqs == 0..MaxCount
ExtendLists == {<<kb, ka>>, <<kv, kv>>}
StoiTokens == {kb, kv}

\* a caller constructs Vocab(counter, max_size, min_freq, specials)
InitVocab ==
  /\ pc = "idle"
  /\ caller = "Vocab"
  /\ words = <<>>
  /\ raw = NoRaw
  /\ starts = 0
  /\ InitMemory
  /\ other = NoProcess
  /\ vocab \in {NewVocab(c, ms, mf, sp) :
                  c \in Counters, ms \in MaxSizes, mf \in MinFreqs, sp \in SpecialLists}

NextVocab ==
  \/ VocabInit
  \/ \E v_itos \in ExtendLists, sort \in BOOLEAN : VocabExtend(v_itos, sort)
  \/ \E token \in StoiTokens : VocabStoi(token)

SpecVocab == InitVocab /\ [][NextVocab]_vars

\* ------------------------------------------------------------------ claims
Range(f) == {f[x] : x \in DOMAIN f}

Distinct(s) == \A a, b \in 1..Len(s) : a # b => s[a] # s[b]

\* the 0-based ordinal of the first occurrence of key in s
FirstIndex(s, key) == (CHOOSE a \in 1..Len(s) : s[a] = key /\ \A b \in 1..(a - 1) : s[b] # key) - 1

\* a HashTable built by a direct call is complete
Built == pc = "ready" /\ caller = "HashTable"

\* some key of the built table does not sit in the bucket its hash names
Displaced == \E j \in 1..Len(words) : table[Mod(string_hash(words[j]), table_size)] # j

\* C1: after a completed Build over distinct keys, Find of the key at
\* ordinal j returns j, for every ordinal, whatever the collisions.
C1_NoFalseNegatives ==
  (Built /\ Distinct(words)) =>
     \A j \in 1..Len(words) : _find(words[j]).result = j - 1

\* a Find has returned the ordinal of a key that a collision had displaced,
\* in a table whose capacity shares the factor 7 with the step
C1_Witness ==
  /\ Built /\ Distinct(words)
  /\ table_size = 14
  /\ last.op = "find" /\ last.exit = "hit" /\ last.attempts > 1
  /\ words[last.ret + 1] = last.key

\* C2 (as stated): while Build probes for a key, an empty slot lies on its
\* probe sequence, so the loop ends after finitely many steps.  The buckets
\* (hash + 7k) mod capacity repeat with a period that divides capacity, so
\* the sequence holds an empty slot iff one of its next capacity buckets is empty.
C2_BuildFindsEmptySlot ==
  pc = "while" =>
     \E k \in 0..(table_size - 1) : table[Probe(hash, k, table_size)] = EMPTY_BUCKET

\* C3 (as stated): Find never leaves its loop by running out of attempts; it
\* ends on a slot holding the key or on an empty slot.
C3_FindNeverExhausts ==
  last.op = "find" => last.exit \in {"hit", "empty"}

\* C4: Find inspects at most table_size buckets, for every key, present or
\* absent, and then returns; so it does on the bucket array of a
\* construction that is still under way.
C4_BoundedProbing ==
  /\ last.op = "find" => last.attempts <= table_size
  /\ pc \in {"for", "while", "ready"} =>
        \A key \in Pool \cup LookupKeys : _find(key).attempts <= table_size

\* a Find has inspected table_size buckets before it returned
C4_Witness ==
  last.op = "find" /\ table_size > 2 /\ last.attempts = table_size

\* what the lookups return for the key of the last lookup
C5_Values ==
  /\ (last.op \in {"find", "getitem", "get"} /\ last.ret \notin {None, last.default})
        => (last.ret \in 0..(Len(itos) - 1) /\ itos[last.ret + 1] = last.key)
  /\ (last.op # "none" /\ last.key \notin Range(itos)) =>
        /\ last.op = "find" => last.ret = None
        /\ last.op = "get" => last.ret = last.default
        /\ last.op = "contains" => last.bool = FALSE
        /\ last.op = "getitem" => last.raised = "KeyError"
  /\ last.op \in {"find", "get", "contains"} => last.raised = ""
  /\ (last.op = "getitem" /\ last.raised # "") => last.key \notin Range(itos)

\* a lookup leaves the bucket array, the key table and the capacity as they were
C5_Frame ==
  (pc = "ready" /\ pc' = "ready") =>
     (itos' = itos /\ table' = table /\ table_size' = table_size /\ words' = words)

\* C5: Find returns an ordinal j only if the key table holds the key at j;
\* for a key that is not in the key table Find returns None, get returns its
\* default, `in` is False and only __getitem__ raises KeyError; no lookup
\* changes the table or the key table.
C5_AbsenceIsAValue == [](C5_Values) /\ [][C5_Frame]_vars

\* the strict wrapper has raised KeyError for a key the table does not hold,
\* after passing over occupied buckets
C5_Witness ==
  /\ Built
  /\ last.op = "getitem" /\ last.raised = "KeyError"
  /\ last.key \notin Range(itos)
  /\ table[Mod(string_hash(last.key), table_size)] # EMPTY_BUCKET

\* the slots while and after Build inserts: i keys are in
C6_Slots ==
  (caller = "HashTable" /\ pc \in {"for", "while", "ready"}) =>
     /\ \A b \in DOMAIN table : table[b] \in 0..Len(words)
     /\ \A j \in 0..(i - 1) : Cardinality({b \in DOMAIN table : table[b] = 1 + j}) = 1
     /\ \A b \in DOMAIN table : table[b] <= i

\* a filled slot keeps its value for the rest of the construction
C6_NoOverwrite ==
  (pc \in {"for", "while", "ready"} /\ pc' \in {"for", "while", "ready"}) =>
     \A b \in DOMAIN table : table[b] # EMPTY_BUCKET => table'[b] = table[b]

\* C6: after each insertion step of Build every slot holds 0 or a value in
\* 1..N, every ordinal inserted so far appears as 1 + ordinal in exactly one
\* slot, and no filled slot is overwritten.
C6_SlotInvariant == [](C6_Slots) /\ [][C6_NoOverwrite]_vars

\* a Build of several keys has completed after a collision
C6_Witness == Built /\ Len(words) >= 3 /\ Displaced

\* C7: when a key occurs more than once in the input of a completed Build,
\* every occurrence has its own slot and Find returns the ordinal of the
\* first occurrence.
C7_FirstOccurrence ==
  Built =>
     /\ \A j \in 1..Len(words) : Cardinality({b \in DOMAIN table : table[b] = j}) = 1
     /\ \A j \in 1..Len(words) : _find(words[j]).result = FirstIndex(words, words[j])
     /\ (last.op = "find" /\ last.key \in Range(words))
           => last.ret = FirstIndex(words, last.key)

\* a Find has returned the first of two occurrences of a key that is not
\* the first key of the list
C7_Witness ==
  /\ Built
  /\ last.op = "find" /\ last.ret > 0
  /\ \E j \in 1..Len(words) : j # last.ret + 1 /\ words[j] = last.key

Survivors ==
  {n \in 1..Len(raw) :
     /\ Len(raw[n].entries) > 1
     /\ raw[n].utf8
     /\ Len(raw[n].word) <= MAX_WORD_LENGTH}

\* the sizes of the arrays of a table that Vectors.cache built
C9_Sizes ==
  (pc = "ready" /\ path = "build") =>
     /\ table_size = 2 * Len(itos)
     /\ shape0(table) = 2 * Len(itos)
     /\ Len(itos) = Len(vectors)
     /\ Len(itos) = Cardinality(Survivors)

\* no lookup changes the capacity
C9_Fixed ==
  (pc = "ready" /\ pc' = "ready") =>
     (table_size' = table_size /\ DOMAIN table' = DOMAIN table)

\* C9: for every table produced by Build the bucket count is twice the key
\* count, the key count is the number of matrix rows and the number of
\* surviving input lines, and no lookup changes the capacity.
C9_SizeInvariant == [](C9_Sizes) /\ [][C9_Fixed]_vars

\* a table was built from a file of which a line was dropped, and looked up
C9_Witness ==
  /\ pc = "ready" /\ path = "build"
  /\ Len(itos) >= 2 /\ Len(raw) > Len(itos)
  /\ last.op = "contains"

\* C10 (as stated): a process takes the load path only when all three cache
\* files exist; when one is missing the triple counts as absent and the
\* table is built from the raw text.
C10_LoadOnlyWhenComplete ==
  path = "load" => FileNames \subseteq files.exists

\* C11 (as stated): whatever happened to earlier builds, a process takes
\* the load path only on a triple whose three files exist and were all
\* written by one build that wrote all three.
C11_NoPartialTripleAccepted ==
  path = "load" =>
     /\ FileNames \subseteq files.exists
     /\ \E g \in files.done : \A f \in FileNames : files.by[f] = g

\* string_hash(key), read from token_hash where it is tabulated
hash_of(key) == IF key \in Tokens THEN token_hash[key] ELSE string_hash(key)

\* the keys the round trip is compared on: those of the table that was
\* persisted, and keys it does not hold
RoundTripKeys == Range(prev.itos) \cup Tokens \cup LookupKeys

\* a loaded table answers as the table that was in memory when it was persisted
C12_SameAnswers ==
  (pc = "ready" /\ path = "load") =>
     /\ prev.itos # <<>>
     /\ dim = prev.dim
     /\ \A key \in RoundTripKeys :
          LET loaded == FindFrom(table, itos, table_size, hash_of(key), key, 0).result
              built == FindFrom(prev.table, prev.itos, prev.table_size, hash_of(key), key, 0).result
          IN  /\ loaded = built
              /\ (key \notin Range(prev.itos)) = (loaded = None)
              /\ loaded # None => vectors[loaded + 1] = prev.vectors[built + 1]
     /\ (last.op = "lookup" /\ last.bool) =>
          last.ret = prev.vectors[FirstIndex(prev.itos, last.key) + 1]

\* a process on the load path never hashes or inserts a key: its arrays
\* are the stored ones
C12_NoRebuild ==
  path = "load" =>
     /\ pc' \notin {"parse", "new", "for", "while", "built"}
     /\ (pc = "load" /\ pc' = "ready") => (table' = files.table /\ itos' = files.itos)

\* C12: after a Build has persisted the triple, a later Load yields a table
\* in which Find returns the same ordinal and lookup the same vector as in
\* the table that was in memory, for every key, and absent keys are absent;
\* Load takes the stored bucket array and never hashes or inserts a key.
C12_RoundTrip == [](C12_SameAnswers) /\ [][C12_NoRebuild]_vars

\* a loaded table of two keys has returned the vector of a key
C12_Witness ==
  /\ pc = "ready" /\ path = "load"
  /\ Len(itos) >= 2
  /\ last.op = "lookup" /\ last.bool

\* a start after a completed build is on the load path and stays off the
\* parse, the insertion and the writes
C13_LoadPath ==
  (files.done # {} /\ starts \notin files.done /\ pc # "start") =>
     (path = "load" /\ pc \in {"load", "ready"} /\ words = <<>> /\ ln = 0)

\* once the triple is complete no cache file changes
C13_FilesFrozen == files.done # {} => files' = files

\* C13: once a Build has completed and persisted the triple, every later
\* start takes the load path: it never parses the raw text again and never
\* rewrites or modifies a cache file.
C13_WriteOnce == [](C13_LoadPath) /\ [][C13_FilesFrozen]_vars

\* a later start has loaded the triple of a completed build and served a lookup
C13_Witness ==
  /\ files.done # {} /\ starts \notin files.done
  /\ pc = "ready" /\ last.op = "lookup"

\* the parse loop is about to read a line
AtLine == pc = "parse" /\ ln < Len(raw)

\* the line the parse loop reads next
NextLine == raw[ln + 1]

\* C14 (as stated): a line with exactly one value field that arrives after
\* the dimension was established as 2 is rejected with a fatal error that
\* aborts the build.
C14_OneValueLineIsFatal ==
  [][(AtLine /\ dim = 2 /\ Len(NextLine.entries) = 1) => pc' = "failed"]_vars

\* C14 (amended): a line with exactly one value field that arrives after
\* the dimension was established as 2 is skipped with a warning; the build
\* goes on to the next line with the dimension still 2.
C14_OneValueLineIsSkipped ==
  [][(AtLine /\ dim = 2 /\ Len(NextLine.entries) = 1) =>
        (pc' = "parse" /\ log' = "warning" /\ ln' = ln + 1 /\ dim' = 2)]_vars

\* a build has completed over a file with a one-value line after the line
\* that established the dimension 2
C14_Witness ==
  /\ pc = "ready" /\ path = "build" /\ dim = 2
  /\ \E n \in 2..Len(raw) :
       /\ Len(raw[n].entries) = 1
       /\ \E m \in 1..(n - 1) : Len(raw[m].entries) = 2

\* C15 (as stated): once the dimension D is established, every later line
\* whose number of value fields differs from D aborts the build.
C15_AnyMismatchIsFatal ==
  [][(AtLine /\ dim # None /\ Len(NextLine.entries) # dim) => pc' = "failed"]_vars

\* a build that raised has written none of the three files
C15_AbortedBuildWritesNothing ==
  (path = "build" /\ pc = "failed") => \A f \in FileNames : files.by[f] # starts

\* a line whose count differs from D and is not 1 raises
C15_MismatchRaises ==
  (AtLine /\ dim # None /\ Len(NextLine.entries) \notin {dim, 1}) =>
     (pc' = "failed" /\ files' = files /\ words' = words /\ row' = row)

\* C15 (amended): once the dimension D is established, every later line
\* whose number of value fields differs from D and is not 1, a line with no
\* value field included, aborts the build with an error, and the aborted
\* build writes none of the three cache files.
C15_MismatchIsFatal == [](C15_AbortedBuildWritesNothing) /\ [][C15_MismatchRaises]_vars

\* a build was aborted by a bare token that followed the line that
\* established the dimension
C15_Witness ==
  /\ pc = "failed" /\ path = "build"
  /\ ln >= 2 /\ dim # None
  /\ Len(raw[ln].entries) = 0
  /\ files = NoFiles

\* a line with exactly one value field changes nothing but the line counter
C16_Skip ==
  (AtLine /\ Len(NextLine.entries) = 1) =>
     /\ pc' = "parse" /\ log' = "warning" /\ ln' = ln + 1
     /\ words' = words /\ row' = row /\ dim' = dim /\ vectors' = vectors

\* the number of kept lines among the first n
KeptUpTo(n) == Cardinality({m \in Survivors : m <= n})

\* the row of a kept key is the number of kept lines up to its own: lines
\* with one value field are not counted
C16_NoShift ==
  (pc = "ready" /\ path = "build") =>
     \A n \in Survivors : itos[KeptUpTo(n)] = raw[n].word

\* C16: a line with exactly one value field is skipped with a warning and
\* the build continues; the line adds no key and no row, does not establish
\* the dimension and does not shift the row of any later key.
C16_HeaderSkipped == [](C16_NoShift) /\ [][C16_Skip]_vars

\* a build has completed over a file that starts with a one-value line,
\* followed by two keys
C16_Witness ==
  /\ pc = "ready" /\ path = "build"
  /\ Len(raw[1].entries) = 1
  /\ Len(itos) = 2 /\ itos[1] = raw[2].word /\ itos[2] = raw[3].word

\* a line that passes the tests on its fields and on its encoding
Accepted(line) ==
  /\ Len(line.entries) > 1
  /\ dim \in {None, Len(line.entries)}
  /\ ~(binary_lines /\ ~line.utf8)

\* an over-long key is passed over without a record in the log and without an error
C17_SilentDrop ==
  (AtLine /\ Accepted(NextLine) /\ Len(NextLine.word) > MAX_WORD_LENGTH) =>
     (pc' = "parse" /\ log' = "" /\ words' = words /\ row' = row)

\* the first kept line that carries the key
FirstKept(key) == CHOOSE n \in Survivors : raw[n].word = key /\ \A m \in Survivors : raw[m].word = key => n <= m

\* what a completed build holds of the keys of 100 and of 101 characters
C17_Kept ==
  (pc = "ready" /\ path = "build") =>
     /\ \A j \in 1..Len(itos) : Len(itos[j]) <= MAX_WORD_LENGTH
     /\ token_find(word101).result = None
     /\ Len(vectors) = Len(itos)
     /\ (last.op = "lookup" /\ last.key = word101) => ~last.bool
     /\ (\E n \in 1..Len(raw) : raw[n].word = word100 /\ Accepted(raw[n])) =>
           /\ token_find(word100).result # None
           /\ itos[token_find(word100).result + 1] = word100
           /\ vectors[token_find(word100).result + 1] = raw[FirstKept(word100)].entries

\* C17: a key of more than 100 characters is dropped: it is in neither the
\* key table, the index (`in` is False) nor the matrix; a key of exactly
\* 100 characters is kept; the drop is silent and does not abort the build.
C17_KeyLengthFilter == [](C17_Kept) /\ [][C17_SilentDrop]_vars

\* a build over a file with a key of 101 and a key of 100 characters has
\* completed, and the key of 101 characters was looked up
C17_Witness ==
  /\ pc = "ready" /\ path = "build"
  /\ \E n \in 1..Len(raw) : raw[n].word = word101 /\ Len(raw[n].entries) = dim
  /\ word100 \in Range(itos)
  /\ last.op = "lookup" /\ last.key = word101

\* while the lines are parsed the row counter is the length of the key
\* list, row j holds the values of the j-th kept line, and the assertions
\* on the shapes hold where they are made
C18_Counter ==
  /\ pc = "parse" =>
        /\ row = Len(words)
        /\ row = KeptUpTo(ln)
        /\ dim # None => Len(words) <= Len(vectors)
        /\ \A n \in Survivors : n <= ln =>
              (words[KeptUpTo(n)] = raw[n].word /\ vectors[KeptUpTo(n)] = raw[n].entries)
  /\ pc = "built" => Len(itos) = Len(vectors)

\* after a completed build key i and row i come from the i-th kept line,
\* and lookup returns the values of the first kept line that carries the key
C18_Aligned ==
  (pc = "ready" /\ path = "build") =>
     /\ Len(itos) = Cardinality(Survivors)
     /\ dim = Len(raw[CHOOSE n \in 1..Len(raw) : Len(raw[n].entries) > 1].entries)
     /\ \A n \in Survivors :
          (itos[KeptUpTo(n)] = raw[n].word /\ vectors[KeptUpTo(n)] = raw[n].entries)
     /\ \A key \in Tokens :
          LET found == token_find(key).result IN
          found # None => vectors[found + 1] = raw[FirstKept(key)].entries
     /\ (last.op = "lookup" /\ last.bool) => last.ret = raw[FirstKept(last.key)].entries

\* C18: the key table lists the surviving keys in file order and row i of
\* the matrix holds the vector of the line of key i, also when one-value
\* lines, over-long keys or undecodable keys were skipped, so lookup of a
\* key returns the vector written on its line (the first such line when the
\* key is repeated); the row counter equals the length of the key table at
\* every step and neither shape assertion fails.
C18_RowAlignment == C18_Counter /\ C18_Aligned

\* lookup has returned the vector of a key whose line follows a skipped line
C18_Witness ==
  /\ pc = "ready" /\ path = "build"
  /\ Len(itos) >= 2
  /\ last.op = "lookup" /\ last.bool
  /\ \E n \in Survivors :
       /\ n >= 2 /\ (n - 1) \notin Survivors
       /\ raw[n].word = last.key /\ last.ret = raw[n].entries

\* what lookup returns for a token that the key table does not hold: no
\* error, a 1 x dim tensor of zeros
C19_Fallback ==
  (last.op = "lookup" /\ last.key \notin Range(itos)) =>
     /\ last.raised = "" /\ ~last.bool
     /\ Len(last.ret) = 1 /\ Len(last.ret[1]) = dim
     /\ \A k \in 1..dim : last.ret[1][k] = 0

\* a lookup changes neither the key table, the index nor the matrix
C19_Frame ==
  (pc = "ready" /\ pc' = "ready") =>
     (itos' = itos /\ table' = table /\ table_size' = table_size /\ vectors' = vectors /\ dim' = dim)

\* C19: lookup of a token that is not in the key table is not an error: it
\* returns the fallback, by default all zeros, with as many components as
\* the table's dimension, and leaves the key table, the index and the
\* matrix unchanged.
C19_UnknownHandling == [](C19_Fallback) /\ [][C19_Frame]_vars

\* a table that holds a key has answered the lookup of a token it does not hold
C19_Witness ==
  /\ pc = "ready" /\ caller = "Vectors"
  /\ Len(itos) >= 1 /\ dim = 2
  /\ last.op = "lookup" /\ last.key = ka /\ ka \notin Range(itos)

\* (h * 1025 + c * 1009) mod 2^32, by multiplication of the 16-bit halves
Recurrence(h, c) ==
  LET lo == (h[2] * 1025) + ((c * P) % Base)
      hi == (h[1] * 1025) + ((c * P) \div Base) + (lo \div Base)
  IN  <<hi % Base, lo % Base>>

\* the recurrence from 0 over the first n characters of x
RECURSIVE HashByRecurrence(_, _)
HashByRecurrence(x, n) ==
  IF n = 0 THEN <<0, 0>> ELSE Recurrence(HashByRecurrence(x, n - 1), x[n])

\* strings hashed besides the keys of the table: the empty string and one
\* of the largest code points
HashSamples == {<<>>, <<1114111, 1114111, 1114111>>}

\* a value in 0 .. 2^32 - 1
IsUint32(h) == h[1] \in 0..(Base - 1) /\ h[2] \in 0..(Base - 1)

\* C20: string_hash starts from 0 and takes h to (h * 1025 + c * 1009) mod
\* 2^32 for each character c in order; the masked shift-and-add form of the
\* code gives that value for every string; the result lies in 0 .. 2^32 - 1,
\* the empty string hashes to 0, and the value depends on the string alone.
C20_DeterministicHash ==
  /\ string_hash(<<>>) = <<0, 0>>
  /\ \A x \in Range(words) \cup LookupKeys \cup HashSamples :
       string_hash(x) = HashByRecurrence(x, Len(x)) /\ IsUint32(string_hash(x))
  /\ (pc = "while" /\ nprobe = 0) =>
       (hash = HashByRecurrence(words[i + 1], Len(words[i + 1])) /\ IsUint32(hash))

\* Build has hashed "cat", whose accumulator passes 2^32 at the third
\* character, to 1969203640
C20_Witness ==
  /\ pc = "while" /\ nprobe = 0
  /\ words[i + 1] = kcat
  /\ hash = <<30047, 43448>>

\* a step of a reader leaves the bucket array, the key table, the matrix
\* and the cache files as they were
C21_ReadOnly ==
  (pc = "ready" /\ pc' = "ready") =>
     /\ table' = table /\ itos' = itos /\ table_size' = table_size
     /\ vectors' = vectors /\ dim' = dim
     /\ files' = files /\ words' = words

\* the ordinal of a key of the key table, None for any other key
OrdinalOf(key) == IF key \in Range(itos) THEN FirstIndex(itos, key) ELSE None

\* what the last lookup returned is fixed by the key table and the matrix,
\* whatever lookups were served before it
C21_OrderIndependent ==
  (pc = "ready" /\ caller = "Vectors") =>
     /\ last.op = "find" => last.ret = OrdinalOf(last.key)
     /\ last.op = "contains" => last.bool = (last.key \in Range(itos))
     /\ last.op = "get" =>
          last.ret = IF last.key \in Range(itos) THEN OrdinalOf(last.key) ELSE last.default
     /\ last.op = "getitem" =>
          IF last.key \in Range(itos)
            THEN last.raised = "" /\ last.ret = OrdinalOf(last.key)
            ELSE last.raised = "KeyError"
     /\ last.op = "lookup" =>
          last.ret = IF last.key \in Range(itos)
                       THEN vectors[OrdinalOf(last.key) + 1]
                       ELSE <<[k \in 1..dim |-> 0]>>

\* C21: Find, contains, get and lookup never write to the bucket array, the
\* key table or the matrix, so lookups interleaved in any order on one
\* built or loaded table return what they return one after another: each
\* result is fixed by the key table and the matrix alone.
C21_ReadersSideEffectFree == [](C21_OrderIndependent) /\ [][C21_ReadOnly]_vars

\* a loaded table of two keys has served a get that fell back on its default
C21_Witness ==
  /\ pc = "ready" /\ path = "load"
  /\ Len(itos) >= 2
  /\ last.op = "get" /\ last.ret = last.default /\ last.key \notin Range(itos)

\* C22 (as stated): the size of the index is an integer, the number N of
\* keys of the key table, half the bucket count; iteration yields the keys
\* in ordinal order 0..N-1.
C22_SizeAndIteration ==
  /\ last.op = "len" =>
        (last.raised = "" /\ last.ret = Len(itos) /\ 2 * last.ret = table_size)
  /\ last.op = "iter" =>
        (Len(last.ret) = Len(itos) /\ \A j \in 1..Len(itos) : last.ret[j] = itos[j])

\* C23: Build and Find walk the same probe sequence: the bucket Build
\* inspects after k times `hash += 7` is the bucket of attempt k of Find,
\* (h + 7k) mod capacity, also for a hash within 7 * capacity of 2^32,
\* where the accumulator passes 2^32.
C23_SameProbeSequence ==
  pc = "while" =>
     LET h == string_hash(words[i + 1]) IN
     /\ bucket = Probe(h, nprobe, table_size)
     /\ hash = Add(h, FromInt(STEP * nprobe))
     /\ bucket = Mod(hash, table_size)

\* Build probes for a key whose hash is 2^32 - 3 in a table of 6 buckets,
\* and its accumulator has passed 2^32
C23_Witness ==
  /\ pc = "while" /\ table_size = 6
  /\ words[i + 1] = kwrap
  /\ nprobe >= 1 /\ hash[1] >= Base

\* the first line with more than one value field fixes the dimension and
\* allocates the matrix, whatever becomes of its key; no later line changes
\* the dimension or the shape of the matrix
C24_Fixes ==
  AtLine =>
     /\ (dim = None /\ Len(NextLine.entries) > 1) =>
           /\ dim' = Len(NextLine.entries)
           /\ Len(vectors') = Len(raw)
           /\ \A r \in 1..Len(raw) : Len(vectors'[r]) = Len(NextLine.entries)
           /\ pc' = "parse"
     /\ (dim = None /\ Len(NextLine.entries) <= 1) => (dim' = None /\ vectors' = <<>>)
     /\ dim # None => (dim' = dim /\ Len(vectors') = Len(vectors))

\* while no matrix exists no key and no row has been taken, and once it
\* exists every row has the dimension
C24_MatrixFirst ==
  pc = "parse" =>
     /\ dim = None => (vectors = <<>> /\ row = 0 /\ words = <<>>)
     /\ dim # None =>
          /\ Len(vectors) = Len(raw)
          /\ \A r \in 1..Len(vectors) : Len(vectors[r]) = dim
          /\ \E n \in 1..ln : Len(raw[n].entries) = dim /\ \A m \in 1..(n - 1) : Len(raw[m].entries) <= 1

\* C24: the dimension is fixed by the first line that has more than one
\* value field and never changes afterwards; that line fixes it even when
\* its own key is then dropped (over-long, or undecodable in byte mode);
\* the matrix is allocated at that moment, so no row is written before the
\* matrix exists.
C24_DimensionFixedByFirstLine == [](C24_MatrixFirst) /\ [][C24_Fixes]_vars

\* a build has completed with the dimension of a first line whose key was
\* dropped, over a file that also has a kept key
C24_Witness ==
  /\ pc = "ready" /\ path = "build"
  /\ Len(raw[1].entries) = dim
  /\ 1 \notin Survivors
  /\ Len(itos) >= 1

\* C25 (as stated): a process that starts while another process is between
\* its writes takes the load path only if all three files have been
\* written, and otherwise treats the cache as absent.
C25_ReaderRacingBuilder ==
  [][(pc = "start" /\ pc' # "start" /\ starts' = starts) =>
        ((path' = "load") = (FileNames \subseteq files.exists))]_vars

\* the triple holds the arrays of the process p
HoldsArraysOf(p) ==
  /\ files.vectors = [rows |-> p.vectors, cols |-> p.dim]
  /\ files.itos = p.itos
  /\ files.table = p.table

\* C26: when two builds of one raw file have both completed, their writes
\* interleaved in any order, the triple is complete and consistent and is
\* what either build alone would have written.
C26_TwoBuildersRacing ==
  (pc = "ready" /\ path = "build" /\ other.pc = "ready" /\ other.path = "build") =>
     /\ FileNames \subseteq files.exists
     /\ HoldsArraysOf(Context)
     /\ HoldsArraysOf(other)
     /\ shape0(files.table) = 2 * Len(files.itos)
     /\ Len(files.vectors.rows) = Len(files.itos)
     /\ \A j \in 1..Len(files.itos) :
          FindFrom(files.table, files.itos, shape0(files.table), hash_of(files.itos[j]),
                   files.itos[j], 0).result = FirstIndex(files.itos, files.itos[j])

\* two builds have completed and the triple holds files of both
C26_Witness ==
  /\ pc = "ready" /\ path = "build" /\ other.pc = "ready" /\ other.path = "build"
  /\ Len(itos) >= 2
  /\ files.by["vectors"] # files.by["table"]

\* a Vocab has been constructed
VocabReady == vocab.pc = "ready"

\* C27 (as stated): after the construction of a Vocab and after any
\* sequence of extend calls, stoi[itos[i]] = i at every position i, itos
\* holds no token twice, and the special tokens are the first entries of
\* itos, each exactly once, also when they occur in the counted data.
C27_VocabIndexInvariant ==
  VocabReady =>
     /\ \A j \in 1..Len(vocab.itos) :
          vocab.itos[j] \in DOMAIN vocab.stoi /\ vocab.stoi[vocab.itos[j]] = j - 1
     /\ Distinct(vocab.itos)
     /\ \A j \in 1..Len(vocab.specials) :
          /\ vocab.itos[j] = vocab.specials[j]
          /\ Cardinality({k \in 1..Len(vocab.itos) : vocab.itos[k] = vocab.specials[j]}) = 1

\* C28 (as stated): a lookup of an out-of-vocabulary token through stoi
\* returns the unknown index 0 and leaves the vocabulary unchanged: the keys
\* of stoi are still the entries of itos, and every word a later extend was
\* given is in itos.
C28_LookupLeavesVocabUnchanged ==
  VocabReady =>
     /\ (vocab.last.op = "stoi" /\ ~vocab.last.known) => vocab.last.ret = 0
     /\ DOMAIN vocab.stoi = Range(vocab.itos)
     /\ vocab.last.op = "extend" => vocab.extended \subseteq Range(vocab.itos)

\* the entries of itos after the special tokens
AfterSpecials == SubSeq(vocab.itos, Len(vocab.specials) + 1, Len(vocab.itos))

\* after the special tokens, decreasing frequency, ties in alphabetical order
C29_Order ==
  (VocabReady /\ vocab.extended = {}) =>
     \A a, b \in 1..Len(AfterSpecials) : a < b =>
        \/ vocab.freqs[AfterSpecials[a]] > vocab.freqs[AfterSpecials[b]]
        \/ /\ vocab.freqs[AfterSpecials[a]] = vocab.freqs[AfterSpecials[b]]
           /\ str_lt(AfterSpecials[a], AfterSpecials[b])

\* no token below the minimum frequency
C29_MinFreq ==
  (VocabReady /\ vocab.extended = {}) =>
     \A a \in 1..Len(AfterSpecials) :
        /\ vocab.freqs[AfterSpecials[a]] >= vocab.min_freq
        /\ vocab.freqs[AfterSpecials[a]] >= 1

\* the vocabulary is no larger than max_size
C29_MaxSize ==
  (VocabReady /\ vocab.extended = {} /\ vocab.max_size # None) =>
     Len(vocab.itos) <= vocab.max_size

\* C29 (as stated): after the special tokens itos lists the tokens in
\* decreasing frequency, ties in alphabetical order; no token of a
\* frequency below max(min_freq, 1) is included; max_size is the maximum
\* size of the vocabulary, None meaning no maximum.
C29_OrderAndLimits == C29_Order /\ C29_MinFreq /\ C29_MaxSize
====
